---- MODULE Spec2Model ----
(***************************************************************************)
(* Property view recording and engagement scoring of the real-estate       *)
(* backend (src/real-estate-backend).                                      *)
(*                                                                         *)
(* The PropertyView collection is the sequence views (a ViewEvent's id is  *)
(* its index), the Property collection is the function props.  Every await *)
(* on a store call is a scheduling point, so recordView and                *)
(* getPropertyById are split into one action per store call and several    *)
(* requests interleave (Spec); SpecSession follows one client at a time    *)
(* through recording, interaction updates and session close as time        *)
(* passes; SpecScore applies the scoring getters to one event.  Time is    *)
(* counted in units of 24 hours, so that the 24 hour window of recordView  *)
(* is OneDay units long.                                                   *)
(*                                                                         *)
(* The listing documents carry the fields the services read and write      *)
(* (isActive, status, viewCount, uniqueViews); the store applies $inc to   *)
(* them as MongoDB does.  Durations and scroll depths are whole numbers,   *)
(* so a score is carried exactly in tenths of a point before Math.round.   *)
(*                                                                         *)
(* SpecSearch follows one client of the search endpoints (searchService    *)
(* and propertyService.searchProperties, suggestions, similar listings)    *)
(* over a store of three listings: find and countDocuments are separate    *)
(* steps with soft deletes in between, and documents whose sort keys are   *)
(* equal come back in any order.  SpecTrending applies the two trending    *)
(* computations to a history of view events.  Request parameters are       *)
(* strings of characters, as they arrive in req.query.                     *)
(*                                                                         *)
(* SpecUpdates follows one client through recording, interaction updates   *)
(* and session ends, with values outside the schema's ranges among them;   *)
(* SpecSimilar applies the similar-listings lookup and SpecBands the price *)
(* band counts to stores of their own.                                     *)
(***************************************************************************)
EXTENDS Integers, Sequences, FiniteSets, TLC

\* ---------------------------------------------------------------- bounds
MaxViews == 2
MaxTime == 2
MaxFetch == 1
MaxUpdates == 2
MaxSaves == 1
MaxDuration == 400
\* the largest page size and the last page a search client asks for
MaxLimit == 2
MaxPage == 3
\* the number of listings that are soft-deleted in the search specification
MaxDeleted == 1
\* the number of view events in the history the trending computation reads
MaxEvents == 4

\* ------------------------------------------------------- program constants
\* 24 * 60 * 60 * 1000 ms, in units of 24 hours
OneDay == 1

Listings == {"l1", "l2"}
NoUser == "null"
Users == {"u1", "u2"}
Viewers == {NoUser} \cup Users
Sessions == {"s1", "s2"}
\* the (userId, sessionId) pairs requests arrive with: an anonymous browser, the
\* same browser after u1 logs in, and u2 in a browser of their own
Clients == {<<NoUser, "s1">>, <<"u1", "s1">>, <<"u2", "s2">>}
Procs == {1, 2}
NoDate == -1

Flags == {"imageGalleryOpened", "mapViewed", "contactClicked", "phoneRevealed",
          "whatsappClicked", "shareClicked", "favorited", "inquirySent"}
\* interactions a client reports through updateInteraction in the request model
InteractionInputs == {"imageGalleryOpened", "inquirySent"}
\* (duration, scrollDepth) pairs a client reports through endViewSession
SessionEnds == {<<5, 0>>, <<MaxDuration, 100>>}

\* inputs of the scoring specification
Durations == {d \in 0..MaxDuration : d < 12 \/ d % 50 \in {0, 1, 49}}
ScrollDepths == {s \in 0..100 : s % 25 \in {0, 1, 2, 3, 24}}

Min(a, b) == IF a < b THEN a ELSE b

VARIABLES views, props, calls, fetching, now, done, fetched, updates, saves, ev, out,
          search, res, walk, storeCalls

\* the state of the search, suggestion, similar-listing and trending requests
searchVars == <<search, res, walk, storeCalls>>

vars == <<views, props, calls, fetching, now, done, fetched, updates, saves, ev, out,
          search, res, walk, storeCalls>>

\* ------------------------------------------------------ engagement scorer
NoInteractions == [f \in Flags |-> FALSE]

\* mutant: the 300 second cap wraps around instead of saturating
DurationPointsWrap(d) == IF d > 0 THEN d % 300 ELSE 0

\* min(30, (viewDuration / 300) * 30), in tenths of a point
DurationPoints(d) == IF d > 0 THEN Min(300, d) ELSE 0

\* (scrollDepth / 100) * 20, in tenths of a point
ScrollPoints(s) == 2 * s

InteractionPoints(i) ==
    (IF i["imageGalleryOpened"] THEN 5 ELSE 0)
  + (IF i["mapViewed"] THEN 5 ELSE 0)
  + (IF i["contactClicked"] THEN 10 ELSE 0)
  + (IF i["phoneRevealed"] THEN 8 ELSE 0)
  + (IF i["whatsappClicked"] THEN 7 ELSE 0)
  + (IF i["favorited"] THEN 10 ELSE 0)
  + (IF i["inquirySent"] THEN 15 ELSE 0)

\* Math.round of a value given in tenths: floor(x + 0.5)
MathRound(x10) == (x10 + 5) \div 10

\* mutant: the final Math.min(100, ...) is missing
engagementScoreUnclamped(e) ==
    MathRound(DurationPoints(e.viewDuration) + ScrollPoints(e.scrollDepth)
              + 10 * InteractionPoints(e.interactions))

engagementScore(e) ==
    Min(100, MathRound(DurationPoints(e.viewDuration) + ScrollPoints(e.scrollDepth)
                       + 10 * InteractionPoints(e.interactions)))

\* mutant: the phoneRevealed override is missing
isHighIntentNoPhone(e) ==
    \/ engagementScore(e) >= 60
    \/ e.interactions["inquirySent"]

isHighIntent(e) ==
    \/ engagementScore(e) >= 60
    \/ e.interactions["inquirySent"]
    \/ e.interactions["phoneRevealed"]

\* pre("save"): bounced is set when the condition holds and left alone otherwise
preSave(e) ==
    IF e.viewDuration < 10 /\ engagementScore(e) < 10
    THEN [e EXCEPT !.bounced = TRUE]
    ELSE e

\* ------------------------------------------------------------ view recorder
\* The filter of recordView's findOne.  The first $or branch is the object
\* literal { viewer: userId, viewer: { $ne: null } }: its second viewer key
\* replaces the first, so the branch matches every event with a viewer.
RecentViewFilter(e, propertyId, userId, sessionId, oneDayAgo) ==
    /\ e.property = propertyId
    /\ (e.viewer # NoUser \/ e.sessionId = sessionId)
    /\ e.viewedAt >= oneDayAgo

recentView(propertyId, userId, sessionId, t) ==
    \E i \in 1..Len(views) :
        RecentViewFilter(views[i], propertyId, userId, sessionId, t - OneDay)

IdleCall == [pc |-> "idle", propertyId |-> "l1", userId |-> NoUser,
             sessionId |-> "s1", isUnique |-> FALSE, view |-> 0]

\* the document this.create builds from the schema defaults, before the save hook
NewView(c, t) ==
    [property |-> c.propertyId, viewer |-> c.userId, sessionId |-> c.sessionId,
     viewDuration |-> 0, scrollDepth |-> 0, interactions |-> NoInteractions,
     bounced |-> FALSE, isUnique |-> c.isUnique, viewedAt |-> t, exitedAt |-> NoDate]

\* mutant: the unique branch increments viewCount only
IncCountersNoUnique(rec, isUnique) == [rec EXCEPT !.viewCount = @ + 1]

\* mutant: the counters are written from the client instead of incremented
IncCountersSet(rec, isUnique) ==
    [rec EXCEPT !.viewCount = 1,
                !.uniqueViews = IF isUnique THEN 1 ELSE @]

\* mutant: the unique branch increments uniqueViews alone
IncCountersUniqueAlone(rec, isUnique) ==
    IF isUnique THEN [rec EXCEPT !.uniqueViews = @ + 1]
    ELSE [rec EXCEPT !.viewCount = @ + 1]

\* $inc: { viewCount: 1, uniqueViews: 1 } or $inc: { viewCount: 1 }
IncCounters(rec, isUnique) ==
    [rec EXCEPT !.viewCount = @ + 1,
                !.uniqueViews = IF isUnique THEN @ + 1 ELSE @]

\* recordView up to its first await: the uniqueness lookup
RecordViewFindOne(p, propertyId, userId, sessionId) ==
    /\ calls[p].pc = "idle"
    /\ calls' = [calls EXCEPT ![p] =
                    [pc |-> "create", propertyId |-> propertyId, userId |-> userId,
                     sessionId |-> sessionId,
                     isUnique |-> ~recentView(propertyId, userId, sessionId, now),
                     view |-> 0]]
    /\ UNCHANGED <<views, props, fetching, now, done, fetched, updates, saves, ev, out, searchVars>>

\* this.create(...), which runs the save hook; view is the created document
RecordViewCreate(p) ==
    /\ calls[p].pc = "create"
    /\ Len(views) < MaxViews
    /\ views' = Append(views, preSave(NewView(calls[p], now)))
    /\ calls' = [calls EXCEPT ![p].pc = "inc", ![p].view = Len(views) + 1]
    /\ UNCHANGED <<props, fetching, now, done, fetched, updates, saves, ev, out, searchVars>>

\* Property.findByIdAndUpdate(propertyId, { $inc: ... }) and return view;
\* done collects the ids of the events whose recordView call has returned
RecordViewInc(p) ==
    /\ calls[p].pc = "inc"
    /\ props' = [props EXCEPT ![calls[p].propertyId] = IncCounters(@, calls[p].isUnique)]
    /\ done' = done \cup {calls[p].view}
    /\ calls' = [calls EXCEPT ![p] = IdleCall]
    /\ UNCHANGED <<views, fetching, now, fetched, updates, saves, ev, out, searchVars>>

\* a store call of recordView rejects: the await throws and the call ends there
RecordViewFail(p) ==
    /\ calls[p].pc \in {"create", "inc"}
    /\ calls' = [calls EXCEPT ![p] = IdleCall]
    /\ UNCHANGED <<views, props, fetching, now, done, fetched, updates, saves, ev, out, searchVars>>

\* mutant: $set replaces the whole interactions object by one holding the flag
updateInteractionWholeObject(viewId, interaction) ==
    /\ viewId \in 1..Len(views)
    /\ updates < MaxUpdates
    /\ updates' = updates + 1
    /\ views' = [views EXCEPT
                   ![viewId].interactions = [NoInteractions EXCEPT ![interaction] = TRUE]]
    /\ UNCHANGED <<props, calls, fetching, now, done, fetched, saves, ev, out, searchVars>>

\* findByIdAndUpdate(viewId, { $set: { "interactions.<interaction>": true } });
\* a query update runs no save hook
updateInteraction(viewId, interaction) ==
    /\ viewId \in 1..Len(views)
    /\ updates < MaxUpdates
    /\ updates' = updates + 1
    /\ views' = [views EXCEPT ![viewId].interactions[interaction] = TRUE]
    /\ UNCHANGED <<props, calls, fetching, now, done, fetched, saves, ev, out, searchVars>>

\* findByIdAndUpdate(viewId, { viewDuration, scrollDepth, exitedAt: Date.now() })
endViewSession(viewId, duration, scrollDepth) ==
    /\ viewId \in 1..Len(views)
    /\ updates < MaxUpdates
    /\ updates' = updates + 1
    /\ views' = [views EXCEPT ![viewId].viewDuration = duration,
                              ![viewId].scrollDepth = scrollDepth,
                              ![viewId].exitedAt = now]
    /\ UNCHANGED <<props, calls, fetching, now, done, fetched, saves, ev, out, searchVars>>

\* this.interactions.inquirySent = true; this.save(), on a freshly loaded document;
\* saves counts the save() calls on stored events
markHighIntent(viewId) ==
    /\ viewId \in 1..Len(views)
    /\ saves < MaxSaves
    /\ saves' = saves + 1
    /\ views' = [views EXCEPT
                   ![viewId] = preSave([@ EXCEPT !.interactions["inquirySent"] = TRUE])]
    /\ UNCHANGED <<props, calls, fetching, now, done, fetched, updates, ev, out, searchVars>>

\* ------------------------------------------------------------ listing store
\* mutant: the fetch increments both counters
IncViewCountBoth(rec) == [rec EXCEPT !.viewCount = @ + 1, !.uniqueViews = @ + 1]

\* $inc: { viewCount: 1 } of getPropertyById
IncViewCount(rec) == [rec EXCEPT !.viewCount = @ + 1]

\* getPropertyById up to its second await: the lean read and the isActive test;
\* fetching is the listing whose increment is pending
getPropertyByIdFind(propertyId, incrementView) ==
    /\ fetching = "none"
    /\ fetched["l1"] + fetched["l2"] < MaxFetch
    /\ incrementView /\ props[propertyId].isActive
    /\ fetching' = propertyId
    /\ UNCHANGED <<views, props, calls, now, done, fetched, updates, saves, ev, out, searchVars>>

\* Property.findByIdAndUpdate(propertyId, { $inc: { viewCount: 1 } });
\* fetched counts these increments per listing
getPropertyByIdInc ==
    /\ fetching # "none"
    /\ props' = [props EXCEPT ![fetching] = IncViewCount(@)]
    /\ fetched' = [fetched EXCEPT ![fetching] = @ + 1]
    /\ fetching' = "none"
    /\ UNCHANGED <<views, calls, now, done, updates, saves, ev, out, searchVars>>

\* soft delete: property.isActive = false; save() writes the modified paths only
deleteProperty(propertyId) ==
    /\ props' = [props EXCEPT ![propertyId].isActive = FALSE]
    /\ UNCHANGED <<views, calls, fetching, now, done, fetched, updates, saves, ev, out, searchVars>>

\* Date.now() advances
Tick ==
    /\ now < MaxTime
    /\ now' = now + 1
    /\ UNCHANGED <<views, props, calls, fetching, done, fetched, updates, saves, ev, out, searchVars>>

Init ==
    /\ views = <<>>
    /\ props = [l \in Listings |->
                  [isActive |-> TRUE, status |-> "active", viewCount |-> 0, uniqueViews |-> 0]]
    /\ calls = [p \in Procs |-> IdleCall]
    /\ fetching = "none"
    /\ now = 0
    /\ done = {}
    /\ fetched = [l \in Listings |-> 0]
    /\ updates = 0
    /\ saves = 0
    /\ ev = <<>>
    /\ out = <<>>
    /\ search = <<>>
    /\ res = <<>>
    /\ walk = <<>>
    /\ storeCalls = <<>>

\* the requests on the listing store and the view recorder, interleaved
Next ==
    \/ /\ Len(views) + Cardinality({q \in Procs : calls[q].pc = "create"}) < MaxViews
       /\ \E p \in Procs, l \in Listings, c \in Clients :
             RecordViewFindOne(p, l, c[1], c[2])
    \/ \E p \in Procs : RecordViewCreate(p)
    \/ \E p \in Procs : RecordViewInc(p)
    \/ \E p \in Procs : RecordViewFail(p)
    \/ \E l \in Listings, b \in BOOLEAN : getPropertyByIdFind(l, b)
    \/ getPropertyByIdInc
    \/ \E l \in Listings : deleteProperty(l)

Spec == Init /\ [][Next]_vars

\* one client session at a time: a view is recorded, then updated and closed
NextSession ==
    \/ \E l \in Listings, c \in Clients : RecordViewFindOne(1, l, c[1], c[2])
    \/ RecordViewCreate(1)
    \/ RecordViewInc(1)
    \/ \E i \in 1..MaxViews, f \in InteractionInputs : updateInteraction(i, f)
    \/ \E i \in 1..MaxViews, e \in SessionEnds : endViewSession(i, e[1], e[2])
    \/ \E i \in 1..MaxViews : markHighIntent(i)
    \/ Tick

SpecSession == Init /\ [][NextSession]_vars

\* the (duration, scrollDepth) pairs of the update specification: the values a
\* page reports, and values outside the ranges the schema declares
UpdateEnds == SessionEnds \cup {<<-1, 150>>}

\* one client records views and reports interactions and session ends for them
NextUpdates ==
    \/ \E l \in Listings, c \in Clients : RecordViewFindOne(1, l, c[1], c[2])
    \/ RecordViewCreate(1)
    \/ RecordViewInc(1)
    \/ \E i \in 1..MaxViews, f \in InteractionInputs : updateInteraction(i, f)
    \/ \E i \in 1..MaxViews, e \in UpdateEnds : endViewSession(i, e[1], e[2])

SpecUpdates == Init /\ [][NextUpdates]_vars

\* --------------------------------------------------- scoring specification
ScoreInputs ==
    [viewDuration : Durations, scrollDepth : ScrollDepths,
     interactions : [Flags -> BOOLEAN]]

InitScore ==
    /\ views = <<>>
    /\ props = [l \in Listings |->
                  [isActive |-> TRUE, status |-> "active", viewCount |-> 0, uniqueViews |-> 0]]
    /\ calls = [p \in Procs |-> IdleCall]
    /\ fetching = "none"
    /\ now = 0
    /\ done = {}
    /\ fetched = [l \in Listings |-> 0]
    /\ updates = 0
    /\ saves = 0
    /\ ev \in {<<e>> : e \in ScoreInputs}
    /\ out = <<>>
    /\ search = <<>>
    /\ res = <<>>
    /\ walk = <<>>
    /\ storeCalls = <<>>

\* toJSON with virtuals: both getters are evaluated on the document
toJSON ==
    /\ ev # <<>>
    /\ out = <<>>
    /\ out' = <<[engagementScore |-> engagementScore(ev[1]),
                 isHighIntent |-> isHighIntent(ev[1])]>>
    /\ UNCHANGED <<views, props, calls, fetching, now, done, fetched, updates, saves, ev, searchVars>>

NextScore == toJSON

SpecScore == InitScore /\ [][NextScore]_vars

\* ----------------------------------------------------------- search engine
\* HTTP query parameters are strings, modelled as sequences of characters; a
\* parameter that is not supplied is a field the params record does not have
Digits == <<"0", "1", "2", "3", "4", "5", "6", "7", "8", "9">>
DigitValue(c) == (CHOOSE i \in 1..10 : Digits[i] = c) - 1
\* the decimal string of a number below 10, as a client writes it
DigitString(n) == <<Digits[n + 1]>>

RECURSIVE parseInt(_)
\* parseInt of a string of decimal digits
parseInt(s) ==
    IF Len(s) = 1 THEN DigitValue(s[1])
    ELSE 10 * parseInt(SubSeq(s, 1, Len(s) - 1)) + DigitValue(s[Len(s)])

RECURSIVE trimStart(_)
trimStart(s) == IF s # <<>> /\ Head(s) = " " THEN trimStart(Tail(s)) ELSE s

RECURSIVE trimEnd(_)
trimEnd(s) ==
    IF s # <<>> /\ s[Len(s)] = " " THEN trimEnd(SubSeq(s, 1, Len(s) - 1)) ELSE s

\* String.prototype.trim
trim(s) == trimEnd(trimStart(s))

\* the truthiness of a destructured string parameter: supplied and not ""
Truthy(params, f) == f \in DOMAIN params /\ params[f] # <<>>

\* a destructuring default
Default(params, f, d) == IF f \in DOMAIN params THEN params[f] ELSE d

RECURSIVE Terms(_)
\* the terms a $text search string is split into at whitespace
Terms(s) ==
    LET t == trimStart(s)
        n == IF \E i \in 1..Len(t) : t[i] = " "
             THEN (CHOOSE i \in 1..Len(t) : t[i] = " " /\ \A j \in 1..(i - 1) : t[j] # " ") - 1
             ELSE Len(t)
    IN  IF t = <<>> THEN {}
        ELSE {SubSeq(t, 1, n)} \cup Terms(SubSeq(t, n + 1, Len(t)))

\* $meta: "textScore": the number of search terms the indexed text contains
textScore(doc, text) == Cardinality(Terms(text) \cap doc.words)

\* mutant: the amenities clause is left out of the filter
SearchServiceFilterNoAmenities(params) ==
    [isActive |-> TRUE, status |-> "active"]
    @@ (IF Truthy(params, "query") /\ trim(params.query) # <<>>
        THEN [text |-> trim(params.query)] ELSE <<>>)
    @@ (IF "type" \in DOMAIN params THEN [type |-> params.type] ELSE <<>>)
    @@ (IF Truthy(params, "minPrice") \/ Truthy(params, "maxPrice")
        THEN [price |->
                (IF Truthy(params, "minPrice")
                 THEN [gte |-> parseInt(params.minPrice)] ELSE <<>>)
                @@ (IF Truthy(params, "maxPrice")
                    THEN [lte |-> parseInt(params.maxPrice)] ELSE <<>>)]
        ELSE <<>>)

\* the filter object of searchService.searchProperties
SearchServiceFilter(params) ==
    [isActive |-> TRUE, status |-> "active"]
    @@ (IF Truthy(params, "query") /\ trim(params.query) # <<>>
        THEN [text |-> trim(params.query)] ELSE <<>>)
    @@ (IF "type" \in DOMAIN params THEN [type |-> params.type] ELSE <<>>)
    @@ (IF Truthy(params, "minPrice") \/ Truthy(params, "maxPrice")
        THEN [price |->
                (IF Truthy(params, "minPrice")
                 THEN [gte |-> parseInt(params.minPrice)] ELSE <<>>)
                @@ (IF Truthy(params, "maxPrice")
                    THEN [lte |-> parseInt(params.maxPrice)] ELSE <<>>)]
        ELSE <<>>)
    @@ (IF "amenities" \in DOMAIN params /\ params.amenities # {}
        THEN [amenities |-> params.amenities] ELSE <<>>)

\* the filter object of propertyService.searchProperties: the query is not trimmed
PropertyServiceFilter(params) ==
    [isActive |-> TRUE, status |-> "active"]
    @@ (IF Truthy(params, "query") THEN [text |-> params.query] ELSE <<>>)
    @@ (IF "type" \in DOMAIN params THEN [type |-> params.type] ELSE <<>>)
    @@ (IF Truthy(params, "minPrice") \/ Truthy(params, "maxPrice")
        THEN [price |->
                (IF Truthy(params, "minPrice")
                 THEN [gte |-> parseInt(params.minPrice)] ELSE <<>>)
                @@ (IF Truthy(params, "maxPrice")
                    THEN [lte |-> parseInt(params.maxPrice)] ELSE <<>>)]
        ELSE <<>>)
    @@ (IF "amenities" \in DOMAIN params /\ params.amenities # {}
        THEN [amenities |-> params.amenities] ELSE <<>>)

\* mutant: relevance without a text query sorts oldest first
SearchServiceSortOldest(params) ==
    LET sortBy == Default(params, "sortBy", "relevance")
    IN  CASE sortBy = "price_asc" -> <<<<"price", 1>>>>
          [] sortBy = "price_desc" -> <<<<"price", -1>>>>
          [] sortBy = "newest" -> <<<<"createdAt", -1>>>>
          [] sortBy = "oldest" -> <<<<"createdAt", 1>>>>
          [] sortBy = "popular" -> <<<<"viewCount", -1>>, <<"uniqueViews", -1>>>>
          [] OTHER -> IF Truthy(params, "query") /\ trim(params.query) # <<>>
                      THEN <<<<"score", -1>>>>
                      ELSE <<<<"createdAt", 1>>>>

\* mutant: price_asc and price_desc sort the other way round
SearchServiceSortSwapped(params) ==
    LET sortBy == Default(params, "sortBy", "relevance")
    IN  CASE sortBy = "price_asc" -> <<<<"price", -1>>>>
          [] sortBy = "price_desc" -> <<<<"price", 1>>>>
          [] sortBy = "newest" -> <<<<"createdAt", -1>>>>
          [] sortBy = "oldest" -> <<<<"createdAt", 1>>>>
          [] sortBy = "popular" -> <<<<"viewCount", -1>>, <<"uniqueViews", -1>>>>
          [] OTHER -> IF Truthy(params, "query") /\ trim(params.query) # <<>>
                      THEN <<<<"score", -1>>>>
                      ELSE <<<<"createdAt", -1>>>>

\* the sort object of searchService.searchProperties: <<field, direction>> keys
SearchServiceSort(params) ==
    LET sortBy == Default(params, "sortBy", "relevance")
    IN  CASE sortBy = "price_asc" -> <<<<"price", 1>>>>
          [] sortBy = "price_desc" -> <<<<"price", -1>>>>
          [] sortBy = "newest" -> <<<<"createdAt", -1>>>>
          [] sortBy = "oldest" -> <<<<"createdAt", 1>>>>
          [] sortBy = "popular" -> <<<<"viewCount", -1>>, <<"uniqueViews", -1>>>>
          [] OTHER -> IF Truthy(params, "query") /\ trim(params.query) # <<>>
                      THEN <<<<"score", -1>>>>
                      ELSE <<<<"createdAt", -1>>>>

\* the sort object of propertyService.searchProperties
PropertyServiceSort(params) ==
    LET sortBy == Default(params, "sortBy", "relevance")
    IN  CASE sortBy = "price_asc" -> <<<<"price", 1>>>>
          [] sortBy = "price_desc" -> <<<<"price", -1>>>>
          [] sortBy = "newest" -> <<<<"createdAt", -1>>>>
          [] sortBy = "popular" -> <<<<"viewCount", -1>>>>
          [] OTHER -> IF Truthy(params, "query")
                      THEN <<<<"score", -1>>>>
                      ELSE <<<<"createdAt", -1>>>>

\* ---- the store's side of a query
\* a document satisfies a filter object: every key of the filter must hold
Matches(doc, filter) ==
    /\ doc.isActive = filter.isActive
    /\ doc.status = filter.status
    /\ "text" \in DOMAIN filter => textScore(doc, filter.text) > 0
    /\ "type" \in DOMAIN filter => doc.type = filter.type
    /\ "price" \in DOMAIN filter =>
          /\ "gte" \in DOMAIN filter.price => doc.price >= filter.price.gte
          /\ "lte" \in DOMAIN filter.price => doc.price <= filter.price.lte
    /\ "amenities" \in DOMAIN filter => filter.amenities \subseteq doc.amenities

Matching(store, filter) == {l \in DOMAIN store : Matches(store[l], filter)}

SortKey(doc, filter, field) ==
    CASE field = "price" -> doc.price
      [] field = "createdAt" -> doc.createdAt
      [] field = "viewCount" -> doc.viewCount
      [] field = "uniqueViews" -> doc.uniqueViews
      [] field = "score" -> textScore(doc, filter.text)

RECURSIVE Precedes(_, _, _, _)
\* document a must come before document b under the sort keys
Precedes(a, b, filter, sort) ==
    IF sort = <<>> THEN FALSE
    ELSE LET ka == Head(sort)[2] * SortKey(a, filter, Head(sort)[1])
             kb == Head(sort)[2] * SortKey(b, filter, Head(sort)[1])
         IN  ka < kb \/ (ka = kb /\ Precedes(a, b, filter, Tail(sort)))

\* the orders in which the store may deliver the matching documents: those the
\* sort keys do not separate come in any order, and the order may differ from
\* one query to the next
SortedOrders(store, filter, sort) ==
    LET S == Matching(store, filter)
        n == Cardinality(S)
    IN  {o \in [1..n -> S] :
            /\ \A i, j \in 1..n : i # j => o[i] # o[j]
            /\ \A i, j \in 1..n :
                  i < j => ~Precedes(store[o[j]], store[o[i]], filter, sort)}

\* mutant: limit is not applied
FindNoLimit(store, filter, sort, skip, limit) ==
    {SubSeq(o, skip + 1, Len(o)) : o \in SortedOrders(store, filter, sort)}

\* find(filter).sort(sort).skip(skip).limit(limit): the pages it can deliver
Find(store, filter, sort, skip, limit) ==
    {SubSeq(o, skip + 1, Min(skip + limit, Len(o))) :
        o \in SortedOrders(store, filter, sort)}

\* countDocuments(filter)
CountDocuments(store, filter) == Cardinality(Matching(store, filter))

\* Math.ceil(total / limit)
MathCeilDiv(total, limit) == (total + limit - 1) \div limit

\* ---- the two search endpoints
\* GET /api/search runs searchService, GET /api/properties/search propertyService
Routes == {"searchService", "propertyService"}

SearchFilter(route, params) ==
    IF route = "searchService" THEN SearchServiceFilter(params)
    ELSE PropertyServiceFilter(params)

SearchSort(route, params) ==
    IF route = "searchService" THEN SearchServiceSort(params)
    ELSE PropertyServiceSort(params)

\* page = 1 and limit = 12 by default; the arithmetic coerces the strings
PageOf(params) == IF "page" \in DOMAIN params THEN parseInt(params.page) ELSE 1
LimitOf(params) == IF "limit" \in DOMAIN params THEN parseInt(params.limit) ELSE 12
SkipOf(params) == (PageOf(params) - 1) * LimitOf(params)

\* the request without its page number
SansPage(params) == [f \in DOMAIN params \ {"page"} |-> params[f]]

\* storeCalls logs the store calls of the request at hand: call resolved
Resolved(call) == [call |-> call, rejected |-> FALSE]

\* call rejected
Rejected(call) == [call |-> call, rejected |-> TRUE]

\* `Search failed: ${error.message}`: the text is the prefix followed by the
\* message of the store's error
ErrorMessage(prefix, detail) == <<prefix, detail>>

\* messages of the errors a store call rejects with
StoreErrors == {"connect ECONNREFUSED 10.0.0.5:27017"}

\* the search handler and service up to the first await: the filter and sort
\* objects are built and find is issued; search holds the pending request
searchPropertiesFind(route, params) ==
    /\ search = <<>>
    /\ \E properties \in Find(props, SearchFilter(route, params),
                              SearchSort(route, params),
                              SkipOf(params), LimitOf(params)) :
          search' = <<[route |-> route, params |-> params, store |-> props,
                       properties |-> properties]>>
    /\ storeCalls' = <<Resolved("find")>>
    /\ res' = <<>>
    /\ walk' = IF PageOf(params) = 1 THEN <<>> ELSE walk
    /\ UNCHANGED <<views, props, calls, fetching, now, done, fetched, updates, saves,
                   ev, out>>

\* countDocuments returns and the handler answers 200; walk keeps the pages a
\* client has collected since it asked for page 1 of this request
searchPropertiesCount ==
    /\ search # <<>>
    /\ LET c == search[1]
           total == CountDocuments(props, SearchFilter(c.route, c.params))
       IN  /\ res' = <<[handler |-> "searchProperties", status |-> 200,
                        properties |-> c.properties,
                        pagination |->
                           [currentPage |-> PageOf(c.params),
                            totalPages |-> MathCeilDiv(total, LimitOf(c.params)),
                            totalItems |-> total,
                            itemsPerPage |-> LimitOf(c.params)]]>>
           /\ walk' = IF PageOf(c.params) = 1
                      THEN <<[route |-> c.route, params |-> SansPage(c.params),
                              store |-> c.store, pages |-> <<c.properties>>]>>
                      ELSE <<[walk[1] EXCEPT !.pages = Append(@, c.properties)]>>
    /\ search' = <<>>
    /\ storeCalls' = Append(storeCalls, Resolved("countDocuments"))
    /\ UNCHANGED <<views, props, calls, fetching, now, done, fetched, updates, saves,
                   ev, out>>

\* find rejects: the service rethrows and the handler answers 500 with
\* error.message
searchPropertiesFindRejects(route, params, detail) ==
    /\ search = <<>>
    /\ storeCalls' = <<Rejected("find")>>
    /\ res' = <<[handler |-> "searchProperties", status |-> 500,
                 message |-> ErrorMessage("Search failed: ", detail)]>>
    /\ walk' = IF PageOf(params) = 1 THEN <<>> ELSE walk
    /\ UNCHANGED <<views, props, calls, fetching, now, done, fetched, updates, saves,
                   ev, out, search>>

\* countDocuments rejects
searchPropertiesCountRejects(detail) ==
    /\ search # <<>>
    /\ search' = <<>>
    /\ storeCalls' = Append(storeCalls, Rejected("countDocuments"))
    /\ res' = <<[handler |-> "searchProperties", status |-> 500,
                 message |-> ErrorMessage("Search failed: ", detail)]>>
    /\ UNCHANGED <<views, props, calls, fetching, now, done, fetched, updates, saves,
                   ev, out, walk>>

\* ---- suggestions and similar listings
\* String.prototype.toLowerCase on the letters of the model's strings
toLowerCase(c) ==
    CASE c = "G" -> "g" [] c = "P" -> "p" [] c = "S" -> "s" [] OTHER -> c

Lower(s) == [i \in 1..Len(s) |-> toLowerCase(s[i])]

\* new RegExp(pattern, "i") on a field: a pattern of plain letters matches
\* anywhere in the string, whatever the case
RegExpTest(pattern, s) ==
    \E i \in 1..(Len(s) - Len(pattern) + 1) :
        Lower(SubSeq(s, i, i + Len(pattern) - 1)) = Lower(pattern)

\* mutant: the length test is made on the query as given
QueryTooShortUntrimmed(args) == ~Truthy(args, "query") \/ Len(args.query) < 2

\* !query || query.trim().length < 2
QueryTooShort(args) == ~Truthy(args, "query") \/ Len(trim(args.query)) < 2

\* the cities the location aggregate collects with $addToSet
SuggestedLocations(store, pattern) ==
    {store[l].city :
        l \in {m \in DOMAIN store : /\ store[m].isActive /\ store[m].status = "active"
                                    /\ RegExpTest(pattern, store[m].city)}}

\* the listings whose title matches
SuggestedProperties(store, pattern) ==
    {l \in DOMAIN store :
        /\ store[l].isActive /\ store[l].status = "active"
        /\ \E w \in store[l].words : RegExpTest(pattern, w)}

\* .limit(limit) and .slice(0, limit) of an unsorted result
Truncations(S, limit) ==
    {T \in SUBSET S : Cardinality(T) = Min(limit, Cardinality(S))}

\* searchService.getSearchSuggestions(query, limit), called with args
getSearchSuggestions(args, limit) ==
    /\ IF QueryTooShort(args)
       THEN /\ res' = <<[handler |-> "searchService.getSearchSuggestions", args |-> args,
                         returned |-> [locations |-> {}, properties |-> {}]]>>
            /\ storeCalls' = <<>>
       ELSE /\ \E locations \in Truncations(SuggestedLocations(props, trim(args.query)),
                                            limit),
                 properties \in Truncations(SuggestedProperties(props, trim(args.query)),
                                            limit) :
                  res' = <<[handler |-> "searchService.getSearchSuggestions",
                            args |-> args,
                            returned |-> [locations |-> locations,
                                          properties |-> properties]]>>
            /\ storeCalls' = <<Resolved("aggregate"), Resolved("find")>>
    /\ UNCHANGED <<views, props, calls, fetching, now, done, fetched, updates, saves,
                   ev, out, search, walk>>

\* the aggregate rejects and the service throws
getSearchSuggestionsThrows(args, limit, detail) ==
    /\ ~QueryTooShort(args)
    /\ res' = <<[handler |-> "searchService.getSearchSuggestions", args |-> args,
                 thrown |-> ErrorMessage("Failed to get suggestions: ", detail)]>>
    /\ storeCalls' = <<Rejected("aggregate")>>
    /\ UNCHANGED <<views, props, calls, fetching, now, done, fetched, updates, saves,
                   ev, out, search, walk>>

\* GET /api/search/suggestions: the handler tests q itself, then calls the service
suggestionsHandler(query, limit) ==
    /\ IF ~Truthy(query, "q") \/ Len(trim(query.q)) < 2
       THEN /\ res' = <<[handler |-> "getSearchSuggestions", status |-> 400,
                         message |-> <<"Search query must be at least 2 characters">>]>>
            /\ storeCalls' = <<>>
       ELSE /\ \E locations \in Truncations(SuggestedLocations(props, trim(query.q)),
                                            limit),
                 properties \in Truncations(SuggestedProperties(props, trim(query.q)),
                                            limit) :
                  res' = <<[handler |-> "getSearchSuggestions", status |-> 200,
                            data |-> [locations |-> locations,
                                      properties |-> properties]]>>
            /\ storeCalls' = <<Resolved("aggregate"), Resolved("find")>>
    /\ UNCHANGED <<views, props, calls, fetching, now, done, fetched, updates, saves,
                   ev, out, search, walk>>

\* the aggregate rejects: the handler answers 500 with error.message
suggestionsHandlerRejects(query, limit, detail) ==
    /\ Truthy(query, "q") /\ Len(trim(query.q)) >= 2
    /\ res' = <<[handler |-> "getSearchSuggestions", status |-> 500,
                 message |-> ErrorMessage("Failed to get suggestions: ", detail)]>>
    /\ storeCalls' = <<Rejected("aggregate")>>
    /\ UNCHANGED <<views, props, calls, fetching, now, done, fetched, updates, saves,
                   ev, out, search, walk>>

\* mutant: the find leaves out the price clause
SimilarAnyPrice(store, propertyId) ==
    {l \in DOMAIN store :
        /\ l # propertyId
        /\ store[l].isActive /\ store[l].status = "active"
        /\ store[l].type = store[propertyId].type
        /\ store[l].city = store[propertyId].city}

\* the filter of getSimilarProperties: same type and city, price within
\* [0.7, 1.3] times the reference price, the reference itself left out
Similar(store, propertyId) ==
    {l \in DOMAIN store :
        /\ l # propertyId
        /\ store[l].isActive /\ store[l].status = "active"
        /\ store[l].type = store[propertyId].type
        /\ store[l].city = store[propertyId].city
        /\ 10 * store[l].price >= 7 * store[propertyId].price
        /\ 10 * store[l].price <= 13 * store[propertyId].price}

\* a find without sort delivers the documents in the order the store reads
\* them in, which the query does not fix
NaturalOrders(S) ==
    {o \in [1..Cardinality(S) -> S] : \A i, j \in 1..Cardinality(S) : i # j => o[i] # o[j]}

\* GET /api/properties/:id/similar: handler and service
getSimilarProperties(propertyId, limit) ==
    /\ IF propertyId \notin DOMAIN props
       THEN /\ res' = <<[handler |-> "getSimilarProperties", status |-> 404,
                         propertyId |-> propertyId,
                         message |-> ErrorMessage("Failed to fetch similar properties: ",
                                                  "Property not found")]>>
            /\ storeCalls' = <<Resolved("findById")>>
       ELSE /\ \E o \in NaturalOrders(Similar(props, propertyId)) :
                  res' = <<[handler |-> "getSimilarProperties", status |-> 200,
                            propertyId |-> propertyId,
                            properties |-> SubSeq(o, 1, Min(limit, Len(o))),
                            count |-> Min(limit, Len(o))]>>
            /\ storeCalls' = <<Resolved("findById"), Resolved("find")>>
    /\ UNCHANGED <<views, props, calls, fetching, now, done, fetched, updates, saves,
                   ev, out, search, walk>>

\* findById rejects: the service rethrows and the handler's catch answers 404
\* with error.message
getSimilarPropertiesRejects(propertyId, detail) ==
    /\ res' = <<[handler |-> "getSimilarProperties", status |-> 404,
                 message |-> ErrorMessage("Failed to fetch similar properties: ",
                                          detail)]>>
    /\ storeCalls' = <<Rejected("findById")>>
    /\ UNCHANGED <<views, props, calls, fetching, now, done, fetched, updates, saves,
                   ev, out, search, walk>>

\* ---- search specification
SearchListings == {"l1", "l2", "l3"}
Prices == {1, 2}
Types == {"flat", "villa"}
AmenitySets == {{}, {"Parking"}, {"Parking", "Lift"}}

Sea == <<"s", "e", "a">>
View == <<"v", "i", "e", "w">>
Flat == <<"f", "l", "a", "t">>
Goa == <<"G", "o", "a">>
Pune == <<"P", "u", "n", "e">>

\* a listing as createProperty stores it, after a soft delete, and once sold
ListingStates ==
    {[isActive |-> TRUE, status |-> "active"],
     [isActive |-> FALSE, status |-> "active"],
     [isActive |-> TRUE, status |-> "sold"]}

\* the listing documents of the search specification: the fields the filter and
\* sort objects name.  Listings are created one after another, so createdAt
\* differs from listing to listing.
Listing(state, type, price, amenities, words, city, createdAt) ==
    [isActive |-> state.isActive, status |-> state.status, type |-> type,
     price |-> price, amenities |-> amenities, words |-> words, city |-> city,
     createdAt |-> createdAt, viewCount |-> 0, uniqueViews |-> 0]

Catalogue(st, t, am, p1, p2, p3) ==
    [l \in SearchListings |->
        CASE l = "l1" -> Listing(st, t, p1, am, {Sea, View}, Goa, 1)
          [] l = "l2" -> Listing([isActive |-> TRUE, status |-> "active"], "flat", p2,
                                 {"Parking", "Lift"}, {Flat}, Goa, 2)
          [] l = "l3" -> Listing([isActive |-> TRUE, status |-> "active"], "flat", p3,
                                 {"Parking", "Lift"}, {Sea, Flat}, Pune, 3)]

\* the stores a run starts from: l1 in every combination of state, type, price
\* and amenities beside two flats of different price, and three active flats
\* in every combination of prices
Catalogues ==
    {Catalogue(st, t, am, p1, 1, 2) :
        st \in ListingStates, t \in Types, am \in AmenitySets, p1 \in Prices}
    \cup {Catalogue([isActive |-> TRUE, status |-> "active"], "flat",
                    {"Parking", "Lift"}, p1, p2, p3) :
            p1 \in Prices, p2 \in Prices, p3 \in Prices}

NoParams == [f \in {} |-> f]
Optional(name, values) == {NoParams} \cup {[f \in {name} |-> v] : v \in values}

\* requests with filters and the default page, page size and sort mode
FilterRequests ==
    {t @@ mn @@ mx @@ am :
        t \in Optional("type", {"villa"}),
        mn \in Optional("minPrice", {DigitString(p) : p \in Prices}),
        mx \in Optional("maxPrice", {DigitString(p) : p \in Prices}),
        am \in Optional("amenities", {{"Parking"}, {"Parking", "Lift"}})}

\* the partial queries of the suggestion requests
SuggestQueries == {<<>>, <<" ">>, <<"s">>, <<" ", "s", " ">>, <<"s", "e">>, Sea,
                   <<"g", "o">>}

\* limit = 10 by default, and a limit below the number of listings
SuggestLimits == {1, 10}

\* the ids of the similar-listings requests: the listings and an unknown id
SimilarIds == SearchListings \cup {"l9"}

SortModes == {"relevance", "price_asc", "price_desc", "newest", "popular"}
Queries == {<<>>, <<" ">>, Sea}

\* requests with a sort mode and a page size, paged through by the client
SortRequests ==
    {q @@ sb @@ [limit |-> DigitString(n)] :
        q \in Optional("query", Queries),
        sb \in Optional("sortBy", SortModes),
        n \in 1..MaxLimit}

InitSearch ==
    /\ views = <<>>
    /\ props \in Catalogues
    /\ calls = [p \in Procs |-> IdleCall]
    /\ fetching = "none"
    /\ now = 0
    /\ done = {}
    /\ fetched = [l \in Listings |-> 0]
    /\ updates = 0
    /\ saves = 0
    /\ ev = <<>>
    /\ out = <<>>
    /\ search = <<>>
    /\ res = <<>>
    /\ walk = <<>>
    /\ storeCalls = <<>>

\* no request has been made yet in this run
Fresh == res = <<>> /\ walk = <<>> /\ storeCalls = <<>> /\ search = <<>>

\* The handlers keep nothing between requests, so a run follows one client: it
\* sends one request and, if the request has a page size, asks for the page
\* after the last one it received while the pagination of that page says there
\* is one.  Soft deletes fall anywhere between the store calls.
NextSearch ==
    \/ /\ Fresh
       /\ \E route \in Routes, params \in FilterRequests :
             searchPropertiesFind(route, params)
    \/ \E route \in Routes, r \in SortRequests, k \in 1..MaxPage :
          /\ \/ k = 1 /\ Fresh
             \/ /\ walk # <<>>
                /\ walk[1].route = route
                /\ walk[1].params = r
                /\ Len(walk[1].pages) = k - 1
                /\ res # <<>> /\ res[1].status = 200
                /\ k <= res[1].pagination.totalPages
          /\ searchPropertiesFind(route, r @@ [page |-> DigitString(k)])
    \/ searchPropertiesCount
    \/ /\ Fresh
       /\ \E route \in Routes, params \in FilterRequests, e \in StoreErrors :
             searchPropertiesFindRejects(route, params, e)
    \/ \E e \in StoreErrors : searchPropertiesCountRejects(e)
    \/ /\ Fresh
       /\ \E args \in Optional("query", SuggestQueries), limit \in SuggestLimits :
             getSearchSuggestions(args, limit)
    \/ /\ Fresh
       /\ \E args \in Optional("query", SuggestQueries), limit \in SuggestLimits,
             e \in StoreErrors :
             getSearchSuggestionsThrows(args, limit, e)
    \/ /\ Fresh
       /\ \E query \in Optional("q", SuggestQueries), limit \in SuggestLimits :
             suggestionsHandler(query, limit)
    \/ /\ Fresh
       /\ \E query \in Optional("q", SuggestQueries), limit \in SuggestLimits,
             e \in StoreErrors :
             suggestionsHandlerRejects(query, limit, e)
    \/ /\ Fresh
       /\ \E id \in SimilarIds, limit \in {4} : getSimilarProperties(id, limit)
    \/ /\ Fresh
       /\ \E id \in SimilarIds, e \in StoreErrors : getSimilarPropertiesRejects(id, e)
    \/ /\ Cardinality({l \in SearchListings : ~props[l].isActive}) < MaxDeleted
       /\ \E l \in SearchListings : deleteProperty(l)

SpecSearch == InitSearch /\ [][NextSearch]_vars

\* ---- similar-listings specification
\* prices around a reference of 10: on the 0.7 boundary, within 10%, and
\* above 1.3 times
SimilarPrices == {7, 10, 11, 14}

\* the stores of the similar-listings runs: l1 an active flat in Goa priced 10,
\* l2 in every combination of state, type, city, price and view count, and l3
\* an active flat in Goa of any price and view count
SimilarCatalogues ==
    {[l \in SearchListings |->
        CASE l = "l1" -> Listing([isActive |-> TRUE, status |-> "active"], "flat", 10,
                                 {}, {Flat}, Goa, 1)
          [] l = "l2" -> [Listing(st, t, p2, {}, {Flat}, c, 2) EXCEPT !.viewCount = v2]
          [] l = "l3" -> [Listing([isActive |-> TRUE, status |-> "active"], "flat", p3,
                                  {}, {Flat}, Goa, 3) EXCEPT !.viewCount = v3]] :
        st \in ListingStates, t \in Types, c \in {Goa, Pune},
        p2 \in SimilarPrices, p3 \in SimilarPrices, v2 \in {0, 1}, v3 \in {0, 1}}

InitSimilar ==
    /\ views = <<>>
    /\ props \in SimilarCatalogues
    /\ calls = [p \in Procs |-> IdleCall]
    /\ fetching = "none"
    /\ now = 0
    /\ done = {}
    /\ fetched = [l \in Listings |-> 0]
    /\ updates = 0
    /\ saves = 0
    /\ ev = <<>>
    /\ out = <<>>
    /\ search = <<>>
    /\ res = <<>>
    /\ walk = <<>>
    /\ storeCalls = <<>>

\* one similar-listings request per run, with the limit the handler defaults
\* to or one below the number of listings
NextSimilar ==
    \/ /\ Fresh
       /\ \E id \in SimilarIds, limit \in {1, 4} : getSimilarProperties(id, limit)
    \/ /\ Fresh
       /\ \E id \in SimilarIds, e \in StoreErrors : getSimilarPropertiesRejects(id, e)

SpecSimilar == InitSimilar /\ [][NextSimilar]_vars

\* ---- price bands
\* prices of the band specification are counted in units of 1,250,000 rupees,
\* in which the band boundaries 5,000,000 / 7,500,000 / 10,000,000 /
\* 20,000,000 are 4 / 6 / 8 / 16
NoMax == -1

\* the categories array of getPriceRangeCategories: min and max of each band,
\* max: null for the last
PriceCategories ==
    <<[min |-> 0, max |-> 4], [min |-> 4, max |-> 6], [min |-> 6, max |-> 8],
      [min |-> 8, max |-> 16], [min |-> 16, max |-> NoMax]>>

\* the query of one category: price $gte min and, if (category.max), $lte max
InCategory(doc, category) ==
    /\ doc.isActive /\ doc.status = "active"
    /\ doc.price >= category.min
    /\ category.max # NoMax => doc.price <= category.max

\* boundaries: [0, 5000000, 7500000, 10000000, 20000000, Infinity] of the
\* $bucket stage: the bucket of a price is the last boundary not above it, each
\* bucket holding its lower boundary and not its upper one
BucketBoundaries == <<0, 4, 6, 8, 16>>

BucketOf(price) ==
    CHOOSE k \in 1..Len(BucketBoundaries) :
        /\ BucketBoundaries[k] <= price
        /\ k < Len(BucketBoundaries) => price < BucketBoundaries[k + 1]

\* GET /api/search/price-ranges: handler and service; one countDocuments per
\* category
getPriceRangeCategories ==
    /\ res' = <<[handler |-> "getPriceRangeCategories", status |-> 200,
                 categories |->
                    [k \in 1..Len(PriceCategories) |->
                        [min |-> PriceCategories[k].min, max |-> PriceCategories[k].max,
                         count |-> Cardinality({l \in DOMAIN props :
                                       InCategory(props[l], PriceCategories[k])})]]]>>
    /\ storeCalls' = [k \in 1..Len(PriceCategories) |-> Resolved("countDocuments")]
    /\ UNCHANGED <<views, props, calls, fetching, now, done, fetched, updates, saves,
                   ev, out, search, walk>>

\* a countDocuments rejects: the service rethrows and the handler answers 500
\* with error.message
getPriceRangeCategoriesRejects(detail) ==
    /\ res' = <<[handler |-> "getPriceRangeCategories", status |-> 500,
                 message |-> ErrorMessage("Failed to get price range categories: ",
                                          detail)]>>
    /\ storeCalls' = <<Rejected("countDocuments")>>
    /\ UNCHANGED <<views, props, calls, fetching, now, done, fetched, updates, saves,
                   ev, out, search, walk>>

\* prices inside every band and on every boundary
BandPrices == {0, 2, 4, 5, 6, 7, 8, 12, 16, 20}

\* two listings, each in any state and at any of the prices
InitBands ==
    /\ views = <<>>
    /\ \E st \in [Listings -> ListingStates], pr \in [Listings -> BandPrices] :
          props = [l \in Listings |->
                     [isActive |-> st[l].isActive, status |-> st[l].status,
                      price |-> pr[l], viewCount |-> 0, uniqueViews |-> 0]]
    /\ calls = [p \in Procs |-> IdleCall]
    /\ fetching = "none"
    /\ now = 0
    /\ done = {}
    /\ fetched = [l \in Listings |-> 0]
    /\ updates = 0
    /\ saves = 0
    /\ ev = <<>>
    /\ out = <<>>
    /\ search = <<>>
    /\ res = <<>>
    /\ walk = <<>>
    /\ storeCalls = <<>>

\* one price-range request per run
NextBands ==
    \/ Fresh /\ getPriceRangeCategories
    \/ Fresh /\ \E e \in StoreErrors : getPriceRangeCategoriesRejects(e)

SpecBands == InitBands /\ [][NextBands]_vars

\* ------------------------------------------------------- trend aggregator
\* 7 * 24 * 60 * 60 * 1000 ms, in units of 24 hours
OneWeek == 7 * OneDay

\* the day on which the trending requests of the specification arrive
TrendDay == 8

\* $match: { viewedAt: { $gte: oneWeekAgo } }
InTrendWindow(e, t) == e.viewedAt >= t - OneWeek

\* $group by property over the matched events: $sum of 1, of isUnique and of
\* interactions.inquirySent
TrendGroup(l, t) ==
    LET E == {i \in 1..Len(views) : views[i].property = l /\ InTrendWindow(views[i], t)}
    IN  [property |-> l,
         viewCount |-> Cardinality(E),
         uniqueViews |-> Cardinality({i \in E : views[i].isUnique}),
         inquiries |-> Cardinality({i \in E : views[i].interactions["inquirySent"]})]

TrendGroups(t) ==
    {TrendGroup(l, t) :
        l \in {views[i].property : i \in {j \in 1..Len(views) : InTrendWindow(views[j], t)}}}

\* $sort: { uniqueViews: -1, viewCount: -1 }
TrendPrecedes(a, b) ==
    \/ a.uniqueViews > b.uniqueViews
    \/ a.uniqueViews = b.uniqueViews /\ a.viewCount > b.viewCount

\* the orders in which $sort may deliver the groups
TrendOrders(S) ==
    {o \in [1..Cardinality(S) -> S] :
        /\ \A i, j \in 1..Cardinality(S) : i # j => o[i] # o[j]
        /\ \A i, j \in 1..Cardinality(S) : i < j => ~TrendPrecedes(o[j], o[i])}

\* $match: { "property.isActive": true } on the joined listing
JoinedIsActive(g) == props[g.property].isActive

\* PropertyView.getTrendingProperties(limit): $match, $group, $sort, $limit,
\* then $lookup, $unwind and the $match on the joined listing
getTrendingProperties(limit) ==
    /\ res = <<>>
    /\ \E o \in TrendOrders(TrendGroups(now)) :
          res' = <<[handler |-> "getTrendingProperties", status |-> 200,
                    limit |-> limit, by |-> "PropertyView",
                    trending |-> SelectSeq(SubSeq(o, 1, Min(limit, Len(o))),
                                           JoinedIsActive)]>>
    /\ storeCalls' = <<Resolved("aggregate")>>
    /\ UNCHANGED <<views, props, calls, fetching, now, done, fetched, updates, saves,
                   ev, out, search, walk>>

\* the listings propertyService.getTrendingProperties finds: active listings
\* created in the last days days
TrendFilter(doc, days, t) ==
    /\ doc.isActive /\ doc.status = "active"
    /\ doc.createdAt >= t - days * OneDay

\* .sort("-viewCount -uniqueViews") on the listings' cumulative counters
ListingPrecedes(a, b) ==
    \/ props[a].viewCount > props[b].viewCount
    \/ props[a].viewCount = props[b].viewCount /\ props[a].uniqueViews > props[b].uniqueViews

ListingOrders(S) ==
    {o \in [1..Cardinality(S) -> S] :
        /\ \A i, j \in 1..Cardinality(S) : i # j => o[i] # o[j]
        /\ \A i, j \in 1..Cardinality(S) : i < j => ~ListingPrecedes(o[j], o[i])}

\* the fields of a listing document a trending entry shows
TrendEntry(l) ==
    [property |-> l, viewCount |-> props[l].viewCount, uniqueViews |-> props[l].uniqueViews]

\* GET /api/properties/trending: propertyService.getTrendingProperties(limit, days)
getTrendingPropertiesService(limit, days) ==
    /\ res = <<>>
    /\ \E o \in ListingOrders({l \in DOMAIN props : TrendFilter(props[l], days, now)}) :
          res' = <<[handler |-> "getTrendingProperties", status |-> 200,
                    limit |-> limit, by |-> "propertyService",
                    trending |-> [i \in 1..Min(limit, Len(o)) |-> TrendEntry(o[i])]]>>
    /\ storeCalls' = <<Resolved("find")>>
    /\ UNCHANGED <<views, props, calls, fetching, now, done, fetched, updates, saves,
                   ev, out, search, walk>>

\* the store rejects the find: the service rethrows and the handler answers 500
\* with error.message
getTrendingPropertiesRejects(detail) ==
    /\ res = <<>>
    /\ res' = <<[handler |-> "getTrendingProperties", status |-> 500,
                 message |-> ErrorMessage("Failed to fetch trending properties: ", detail)]>>
    /\ storeCalls' = <<Rejected("find")>>
    /\ UNCHANGED <<views, props, calls, fetching, now, done, fetched, updates, saves,
                   ev, out, search, walk>>

\* ---- trending specification
\* a recorded event: listing, time, isUnique and whether an inquiry was sent
TrendEvent(l, t, isUnique, inquirySent) ==
    [NewView([propertyId |-> l, userId |-> NoUser, sessionId |-> "s1",
              isUnique |-> isUnique], t)
        EXCEPT !.interactions["inquirySent"] = inquirySent]

\* unique views, repeat views, and unique views that led to an inquiry, before
\* the window (day 0) and inside it (day TrendDay)
TrendEvents ==
    {TrendEvent(l, t, k[1], k[2]) :
        l \in Listings, t \in {0, TrendDay},
        k \in {<<TRUE, FALSE>>, <<FALSE, FALSE>>, <<TRUE, TRUE>>}}

\* the histories recordView can leave: events in order of time, a repeat view
\* having an earlier event of its listing in the 24 hours before it
TrendHistories ==
    {h \in UNION {[1..n -> TrendEvents] : n \in 0..MaxEvents} :
        /\ \A i, j \in 1..Len(h) : i < j => h[i].viewedAt <= h[j].viewedAt
        /\ \A i \in 1..Len(h) :
              ~h[i].isUnique =>
                  \E j \in 1..(i - 1) : /\ h[j].property = h[i].property
                                        /\ h[j].viewedAt >= h[i].viewedAt - OneDay}

\* the listings' counters after the history, each listing in one of its states
\* and created on day 0 or inside the window, before its first view
InitTrending ==
    /\ views \in TrendHistories
    /\ \E st \in [Listings -> ListingStates], c \in [Listings -> {0, TrendDay - 1}] :
          props = [l \in Listings |->
                     [isActive |-> st[l].isActive, status |-> st[l].status,
                      viewCount |-> Cardinality({i \in 1..Len(views) : views[i].property = l}),
                      uniqueViews |-> Cardinality({i \in 1..Len(views) :
                                         views[i].property = l /\ views[i].isUnique}),
                      createdAt |-> c[l]]]
    /\ \A i \in 1..Len(views) : views[i].viewedAt >= props[views[i].property].createdAt
    /\ calls = [p \in Procs |-> IdleCall]
    /\ fetching = "none"
    /\ now = TrendDay
    /\ done = {}
    /\ fetched = [l \in Listings |-> 0]
    /\ updates = 0
    /\ saves = 0
    /\ ev = <<>>
    /\ out = <<>>
    /\ search = <<>>
    /\ res = <<>>
    /\ walk = <<>>
    /\ storeCalls = <<>>

TrendLimits == 1..2

NextTrending ==
    \/ \E limit \in TrendLimits : getTrendingProperties(limit)
    \/ \E limit \in TrendLimits : getTrendingPropertiesService(limit, 7)
    \/ \E e \in StoreErrors : getTrendingPropertiesRejects(e)

SpecTrending == InitTrending /\ [][NextTrending]_vars

\* ------------------------------------------------------------------ claims
\* the step in which call p finishes its uniqueness lookup
Lookup(p) == calls[p].pc = "idle" /\ calls'[p].pc = "create"

\* the step in which call p increments the counters and returns
Returns(p) == calls[p].pc = "inc" /\ done' = done \cup {calls[p].view} /\ done' # done

ViewsOf(l) == {i \in done : views[i].property = l}

OnlyInquirySent == [f \in Flags |-> f = "inquirySent"]

\* C1: a new view of listing L by viewer U with session S is classified unique
\* exactly when no event for L in the trailing 24 hours has session S or, for
\* an authenticated U, viewer U; other viewers' events under other sessions
\* never make it non-unique.
C1_UniqueIffNoRecentSameViewerOrSession ==
    [][\A p \in Procs : Lookup(p) =>
          LET c == calls'[p] IN
          c.isUnique <=>
             ~\E i \in 1..Len(views) :
                 /\ views[i].property = c.propertyId
                 /\ views[i].viewedAt >= now - OneDay
                 /\ \/ views[i].sessionId = c.sessionId
                    \/ (c.userId # NoUser /\ views[i].viewer = c.userId)]_vars

\* C2: a view from a session that viewed the listing within the last 24 hours
\* is not unique; a view from a session whose earlier views of the listing are
\* all older than 24 hours is unique.
C2_SameSessionWithinAndAfterWindow ==
    [][\A p \in Procs : Lookup(p) =>
          LET c == calls'[p]
              same == {i \in 1..Len(views) :
                          /\ views[i].property = c.propertyId
                          /\ views[i].sessionId = c.sessionId}
          IN /\ (\E i \in same : views[i].viewedAt >= now - OneDay) => ~c.isUnique
             /\ (same # {} /\ \A i \in same : views[i].viewedAt < now - OneDay)
                   => c.isUnique]_vars

\* C3: a recordView call stores exactly one new event, whatever its
\* classification, and on return has added 1 to the listing's viewCount and
\* 1 to uniqueViews exactly when the stored event is unique.
C3_OneEventOneIncrement ==
    [][\A p \in Procs :
          /\ (calls[p].pc = "create" /\ calls'[p].pc = "inc") =>
                /\ Len(views') = Len(views) + 1
                /\ SubSeq(views', 1, Len(views)) = views
                /\ calls'[p].view = Len(views')
                /\ views'[Len(views')].isUnique = calls[p].isUnique
                /\ views'[Len(views')].property = calls[p].propertyId
          /\ Returns(p) =>
                LET l == calls[p].propertyId
                    v == views[calls[p].view]
                IN /\ views' = views
                   /\ props'[l].viewCount = props[l].viewCount + 1
                   /\ props'[l].uniqueViews =
                         props[l].uniqueViews + (IF v.isUnique THEN 1 ELSE 0)]_vars

\* a unique and a non-unique view of one listing have both been recorded
C3_Witness ==
    \E i, j \in done :
        /\ views[i].property = views[j].property
        /\ views[i].isUnique /\ ~views[j].isUnique
        /\ props[views[i].property].viewCount = 2
        /\ props[views[i].property].uniqueViews = 1

\* C4: under every interleaving no increment is lost: a listing's viewCount
\* is the number of returned recordView calls for it (on top of the
\* increments made by listing fetches) and its uniqueViews is the number of
\* those calls whose event is stored unique.
C4_NoLostUpdate ==
    \A l \in Listings :
        /\ props[l].viewCount = Cardinality(ViewsOf(l)) + fetched[l]
        /\ props[l].uniqueViews = Cardinality({i \in ViewsOf(l) : views[i].isUnique})

\* two calls of one session ran concurrently (both lookups preceded both
\* creates, so both events are unique) and both have returned
C4_Witness ==
    \E i, j \in done :
        /\ i # j
        /\ views[i].property = views[j].property
        /\ views[i].sessionId = views[j].sessionId
        /\ views[i].isUnique /\ views[j].isUnique
        /\ props[views[i].property].viewCount = 2 + fetched[views[i].property]
        /\ \A p \in Procs : calls[p].pc = "idle"

\* C5 as stated: a listing's counters change only in a step of recordView.
C5_OnlyRecordViewChangesCounters ==
    [][\A l \in Listings :
          (\/ props'[l].viewCount # props[l].viewCount
           \/ props'[l].uniqueViews # props[l].uniqueViews)
             => \E p \in Procs : Returns(p) /\ calls[p].propertyId = l]_vars

\* C5 amended: uniqueViews changes only in a step of recordView; viewCount
\* changes only in a step of recordView or in the increment of a
\* getPropertyById that read the listing as active, which adds exactly 1.
C5_CountersChangedByRecordViewOrFetch ==
    [][\A l \in Listings :
          /\ props'[l].uniqueViews # props[l].uniqueViews
                => \E p \in Procs : Returns(p) /\ calls[p].propertyId = l
          /\ props'[l].viewCount # props[l].viewCount
                => \/ \E p \in Procs : Returns(p) /\ calls[p].propertyId = l
                   \/ /\ fetching = l /\ fetching' = "none"
                      /\ props'[l].viewCount = props[l].viewCount + 1]_vars

\* a fetch has incremented the viewCount of a listing that was soft-deleted
\* afterwards: viewCount is ahead of the recorded views, uniqueViews is not
C5_Witness ==
    \E l \in Listings :
        /\ fetched[l] = 1
        /\ ~props[l].isActive
        /\ props[l].viewCount = Cardinality(ViewsOf(l)) + 1
        /\ props[l].uniqueViews = Cardinality({i \in ViewsOf(l) : views[i].isUnique})
        /\ ViewsOf(l) # {}

\* C6: the engagement score of an event with viewDuration >= 0 and
\* scrollDepth in 0..100 is an integer from 0 to 100.
C6_ScoreInRange ==
    out # <<>> => out[1].engagementScore \in 0..100

\* an event whose points add up to more than 100 has been scored 100
C6_Witness ==
    /\ out # <<>>
    /\ out[1].engagementScore = 100
    /\ engagementScoreUnclamped(ev[1]) > 100

\* C7: raising viewDuration, raising scrollDepth or setting one more
\* interaction flag, the rest fixed, never lowers the engagement score.
C7_ScoreMonotone ==
    out # <<>> =>
        LET e == ev[1]
            sc == out[1].engagementScore
        IN /\ \A d \in Durations : d >= e.viewDuration =>
                 engagementScore([e EXCEPT !.viewDuration = d]) >= sc
           /\ \A s \in ScrollDepths : s >= e.scrollDepth =>
                 engagementScore([e EXCEPT !.scrollDepth = s]) >= sc
           /\ \A f \in Flags : ~e.interactions[f] =>
                 engagementScore([e EXCEPT !.interactions[f] = TRUE]) >= sc

\* a scored event past the duration cap whose score a longer duration leaves
\* equal and a deeper scroll and a further flag raise
C7_Witness ==
    /\ out # <<>>
    /\ ev[1].viewDuration = 300
    /\ engagementScore([ev[1] EXCEPT !.viewDuration = MaxDuration]) = out[1].engagementScore
    /\ \E s \in ScrollDepths :
          engagementScore([ev[1] EXCEPT !.scrollDepth = s]) > out[1].engagementScore
    /\ \E f \in Flags :
          /\ ~ev[1].interactions[f]
          /\ engagementScore([ev[1] EXCEPT !.interactions[f] = TRUE]) > out[1].engagementScore

\* C8: isHighIntent is true exactly when the engagement score is at least 60
\* or inquirySent or phoneRevealed is set; so it is true whenever inquirySent is.
C8_HighIntentIff ==
    out # <<>> =>
        /\ out[1].isHighIntent <=>
              (\/ out[1].engagementScore >= 60
               \/ ev[1].interactions["inquirySent"]
               \/ ev[1].interactions["phoneRevealed"])
        /\ ev[1].interactions["inquirySent"] => out[1].isHighIntent

\* a low-scoring event is high intent through phoneRevealed alone
C8_Witness ==
    /\ out # <<>>
    /\ out[1].isHighIntent
    /\ out[1].engagementScore < 60
    /\ ev[1].interactions["phoneRevealed"]
    /\ ~ev[1].interactions["inquirySent"]

\* C9: after every save of an event (its creation, markHighIntent) bounced
\* is true exactly when viewDuration < 10 and engagementScore < 10.
C9_BouncedRecomputedOnSave ==
    [][\A i \in 1..MaxViews :
          ((i = Len(views) + 1 /\ Len(views') = i) \/ markHighIntent(i)) =>
              (views'[i].bounced <=>
                  (views'[i].viewDuration < 10 /\ engagementScore(views'[i]) < 10))]_vars

\* C10: an event closed at 400 seconds and full scroll with inquirySent alone
\* has score 65, is high intent and is not bounced; generally no stored event
\* with viewDuration >= 10 or engagementScore >= 10 is bounced.
C10_EngagedNeverBounced ==
    \A i \in 1..Len(views) :
        /\ (/\ views[i].viewDuration = 400
            /\ views[i].scrollDepth = 100
            /\ views[i].interactions = OnlyInquirySent)
              => /\ engagementScore(views[i]) = 65
                 /\ isHighIntent(views[i])
                 /\ ~views[i].bounced
        /\ (views[i].viewDuration >= 10 \/ engagementScore(views[i]) >= 10)
              => ~views[i].bounced

\* ---- search claims
\* the number a client wrote as the digit string s
Written(s) == CHOOSE n \in 0..9 : DigitString(n) = s

\* listing document d satisfies every filter clause the request params supplies
Satisfies(d, params) ==
    /\ d.isActive /\ d.status = "active"
    /\ "type" \in DOMAIN params => d.type = params.type
    /\ "minPrice" \in DOMAIN params => d.price >= Written(params.minPrice)
    /\ "maxPrice" \in DOMAIN params => d.price <= Written(params.maxPrice)
    /\ "amenities" \in DOMAIN params => \A a \in params.amenities : a \in d.amenities

InvertedRange(params) ==
    /\ {"minPrice", "maxPrice"} \subseteq DOMAIN params
    /\ Written(params.minPrice) > Written(params.maxPrice)

\* C12: a search request whose minimum exceeds its maximum on a range field is
\* rejected with InvalidRange (a 400 response) and neither find nor
\* countDocuments is issued for it.
C12_InvertedRangeRejected ==
    /\ search # <<>> => ~InvertedRange(search[1].params)
    /\ (res # <<>> /\ walk # <<>> /\ InvertedRange(walk[1].params)) =>
           res[1].status = 400

\* the step in which a search request is answered with a page
Answers == search # <<>> /\ res' # <<>> /\ res'[1].status = 200

RECURSIVE Flatten(_)
\* the pages of a walk, one after the other
Flatten(pages) == IF pages = <<>> THEN <<>> ELSE Head(pages) \o Flatten(Tail(pages))

\* the client has received the pages walk holds, the last of them in res, and
\* the store is as it was when page 1 was read
WalkUndisturbed ==
    /\ walk # <<>> /\ search = <<>>
    /\ res # <<>> /\ res[1].status = 200
    /\ walk[1].store = props

\* C14: with no concurrent writes, page k and page k+1 of the same filter and
\* sort mode have no listing in common, and pages 1..ceil(totalItems / pageSize)
\* together hold every matching listing exactly once.
C14_PagesDisjointAndComplete ==
    WalkUndisturbed =>
        LET pages == walk[1].pages
            all == Flatten(pages)
        IN  /\ \A k \in 1..(Len(pages) - 1) :
                  \A i \in 1..Len(pages[k]), j \in 1..Len(pages[k + 1]) :
                      pages[k][i] # pages[k + 1][j]
            /\ Len(pages) = res[1].pagination.totalPages =>
                  \A l \in Matching(props, SearchFilter(walk[1].route, walk[1].params)) :
                      Cardinality({i \in 1..Len(all) : all[i] = l}) = 1

\* the prices of the listings a walk has returned, in the order returned
WalkPrices == [i \in 1..Len(Flatten(walk[1].pages)) |->
                  props[Flatten(walk[1].pages)[i]].price]

\* C15: under price_asc the prices of the results, taken over all pages in
\* order, never decrease; under price_desc they never increase.
C15_PriceSortMonotone ==
    (WalkUndisturbed /\ "sortBy" \in DOMAIN walk[1].params) =>
        /\ walk[1].params.sortBy = "price_asc" =>
              \A i, j \in DOMAIN WalkPrices : i < j => WalkPrices[i] <= WalkPrices[j]
        /\ walk[1].params.sortBy = "price_desc" =>
              \A i, j \in DOMAIN WalkPrices : i < j => WalkPrices[i] >= WalkPrices[j]

\* all pages of a price_asc search over listings of both prices, one per page
C15_Witness ==
    /\ WalkUndisturbed
    /\ "sortBy" \in DOMAIN walk[1].params
    /\ walk[1].params.sortBy = "price_asc"
    /\ Len(walk[1].pages) = res[1].pagination.totalPages
    /\ Len(walk[1].pages) >= 3
    /\ \E i, j \in DOMAIN WalkPrices : WalkPrices[i] < WalkPrices[j]

\* the request has no free-text query: absent, empty or whitespace only
NoTextQuery(params) == "query" \notin DOMAIN params \/ trim(params.query) = <<>>

\* the same request with sort mode newest
AsNewest(params) == [f \in DOMAIN params \cup {"sortBy"} |->
                        IF f = "sortBy" THEN "newest" ELSE params[f]]

\* C16: a search with sort mode relevance, or with none, and no free-text query
\* (absent, empty or whitespace only) returns its results in exactly the order
\* sort mode newest gives for the same request: creation time descending.
C16_RelevanceWithoutQueryIsNewest ==
    (/\ search # <<>>
     /\ Default(search[1].params, "sortBy", "relevance") = "relevance"
     /\ NoTextQuery(search[1].params)) =>
        LET c == search[1]
            n == AsNewest(c.params)
        IN  /\ Find(c.store, SearchFilter(c.route, n), SearchSort(c.route, n),
                    SkipOf(n), LimitOf(n)) = {c.properties}
            /\ \A i, j \in 1..Len(c.properties) :
                  i < j => c.store[c.properties[i]].createdAt
                              > c.store[c.properties[j]].createdAt

\* a relevance search with a whitespace-only query returns two listings
C16_Witness ==
    /\ search # <<>>
    /\ search[1].route = "searchService"
    /\ "sortBy" \in DOMAIN search[1].params
    /\ search[1].params.sortBy = "relevance"
    /\ "query" \in DOMAIN search[1].params
    /\ search[1].params.query = <<" ">>
    /\ Len(search[1].properties) = 2
    /\ PageOf(search[1].params) = 1

\* ---- trending claims
\* the events of listing l inside the trailing window
WindowEvents(l) ==
    {i \in 1..Len(views) : views[i].property = l /\ views[i].viewedAt >= now - OneWeek}

WindowUnique(l) == {i \in WindowEvents(l) : views[i].isUnique}

\* the currently active listings that have view events in the window
TrendEligible ==
    {l \in DOMAIN props :
        props[l].isActive /\ props[l].status = "active" /\ WindowEvents(l) # {}}

\* listing a ranks strictly above listing b: more unique views in the window,
\* or as many and more raw views
RanksAbove(a, b) ==
    \/ Cardinality(WindowUnique(a)) > Cardinality(WindowUnique(b))
    \/ /\ Cardinality(WindowUnique(a)) = Cardinality(WindowUnique(b))
       /\ Cardinality(WindowEvents(a)) > Cardinality(WindowEvents(b))

\* C17: the trending result is the first min(limit, n) entries of the ordering
\* by unique views descending, then raw views descending, of the n currently
\* active listings that have view events in the window.
C17_TrendingIsTopOfOrdering ==
    (res # <<>> /\ res[1].status = 200) =>
        LET r == res[1].trending
            listed == {r[i].property : i \in 1..Len(r)}
        IN  /\ Len(r) = Min(res[1].limit, Cardinality(TrendEligible))
            /\ listed \subseteq TrendEligible
            /\ \A i, j \in 1..Len(r) :
                  i < j => /\ r[i].property # r[j].property
                           /\ ~RanksAbove(r[j].property, r[i].property)
            /\ \A l \in TrendEligible \ listed :
                  \A i \in 1..Len(r) : ~RanksAbove(l, r[i].property)

\* C18: every trending entry refers to a listing that is currently active
\* (isActive and status "active"), and its raw-view, unique-view and inquiry
\* counts are those of the listing's events inside the trailing window.
C18_TrendingActiveAndWindowed ==
    (res # <<>> /\ res[1].status = 200) =>
        \A i \in 1..Len(res[1].trending) :
            LET g == res[1].trending[i]
            IN  /\ props[g.property].isActive
                /\ props[g.property].status = "active"
                /\ g.viewCount = Cardinality(WindowEvents(g.property))
                /\ g.uniqueViews = Cardinality(WindowUnique(g.property))
                /\ "inquiries" \in DOMAIN g =>
                      g.inquiries = Cardinality({e \in WindowEvents(g.property) :
                                         views[e].interactions["inquirySent"]})

\* ---- suggestion and failure claims
\* the suggestion query is absent or shorter than 2 characters once trimmed
ShortQuery(args) ==
    \/ "query" \notin DOMAIN args
    \/ Len(trim(args.query)) < 2

StoreFailed == \E i \in 1..Len(storeCalls) : storeCalls[i].rejected

\* C20: when the store fails during a search, suggestion, similar-listings or
\* trending request, the response has a 5xx status and a generic message that
\* carries nothing of the store's error; a validation failure gives a 4xx
\* response and is detected before any store call.
C20_StoreFailureIsGeneric5xx ==
    (res # <<>> /\ "status" \in DOMAIN res[1]) =>
        /\ StoreFailed =>
              /\ res[1].status \in 500..599
              /\ \A i \in 1..Len(res[1].message) : res[1].message[i] \notin StoreErrors
        /\ res[1].status = 400 => storeCalls = <<>>

\* ---- scoring components and event updates
\* C21: for every scored event the duration component of the engagement score
\* is at most 30 points, the scroll-depth component at most 20 points and the
\* interaction component (the sum of the weights of the flags that are set) at
\* most 50 points.  Duration and scroll points are carried in tenths.
C21_ComponentsWithinCaps ==
    out # <<>> =>
        /\ DurationPoints(ev[1].viewDuration) <= 300
        /\ ScrollPoints(ev[1].scrollDepth) <= 200
        /\ InteractionPoints(ev[1].interactions) <= 50

\* the fields of event i outside the set F are the same before and after the step
SameOutside(i, F) == \A f \in DOMAIN views[i] \ F : views'[i][f] = views[i][f]

\* the step stores and removes no event, and leaves every event but i and
\* every listing as it was
TouchesOnly(i) ==
    /\ Len(views') = Len(views)
    /\ \A j \in 1..Len(views) : j # i => views'[j] = views[j]
    /\ props' = props

\* C22: updateInteraction(id, flag) sets only the named flag to true on event
\* id, and endViewSession(id, duration, scrollDepth) changes only that event's
\* viewDuration, scrollDepth and exit time; neither creates or deletes an
\* event, changes another event, changes the event's listing, viewer, session,
\* isUnique or view timestamp, or changes a listing counter.
C22_UpdatesTouchOnlyTheirFields ==
    [][/\ \A i \in 1..MaxViews, f \in InteractionInputs :
             updateInteraction(i, f) =>
                /\ TouchesOnly(i)
                /\ SameOutside(i, {"interactions"})
                /\ views'[i].interactions[f]
                /\ \A g \in Flags \ {f} :
                      views'[i].interactions[g] = views[i].interactions[g]
       /\ \A i \in 1..MaxViews, e \in UpdateEnds :
             endViewSession(i, e[1], e[2]) =>
                /\ TouchesOnly(i)
                /\ SameOutside(i, {"viewDuration", "scrollDepth", "exitedAt"})
                /\ views'[i].viewDuration = e[1]
                /\ views'[i].scrollDepth = e[2]
                /\ views'[i].exitedAt = now]_vars

\* of two recorded events the first has had a flag set and was then closed;
\* the second is as recordView stored it
C22_Witness ==
    /\ Len(views) = 2
    /\ updates = 2
    /\ views[1].interactions["inquirySent"]
    /\ ~views[1].interactions["imageGalleryOpened"]
    /\ views[1].viewDuration = MaxDuration
    /\ views[1].exitedAt # NoDate
    /\ views[2].interactions = NoInteractions
    /\ views[2].exitedAt = NoDate

\* ---- ordering and similar-listing claims
\* listing a of store comes before listing b under the keys k1, k2, ... of a
\* full ordering: each key a pair <<field, direction>>
RECURSIVE Before(_, _, _, _)
Before(store, a, b, keys) ==
    IF keys = <<>> THEN FALSE
    ELSE LET ka == Head(keys)[2] * store[a][Head(keys)[1]]
             kb == Head(keys)[2] * store[b][Head(keys)[1]]
         IN  ka < kb \/ (ka = kb /\ Before(store, a, b, Tail(keys)))

\* the full ordering the sort mode stands for
FullOrdering(sortBy) ==
    CASE sortBy = "price_asc" -> <<<<"price", 1>>, <<"createdAt", -1>>>>
      [] sortBy = "price_desc" -> <<<<"price", -1>>, <<"createdAt", -1>>>>
      [] sortBy = "popular" ->
            <<<<"viewCount", -1>>, <<"uniqueViews", -1>>, <<"createdAt", -1>>>>

\* C23: the results are fully ordered by the sort keys: under price_asc and
\* price_desc listings of equal price appear in creation-time-descending
\* order, and under popular listings are ordered by view count descending,
\* then unique-view count descending, then creation time descending.
C23_ResultsFullyOrdered ==
    (/\ search # <<>>
     /\ "sortBy" \in DOMAIN search[1].params
     /\ search[1].params.sortBy \in {"price_asc", "price_desc", "popular"}) =>
        LET c == search[1]
        IN  \A i, j \in 1..Len(c.properties) :
               i < j => Before(c.store, c.properties[i], c.properties[j],
                               FullOrdering(c.params.sortBy))

\* C24: the similar-listings lookup for an existing reference returns only
\* active listings, other than the reference, of the same type and city as the
\* reference and with a price within [0.7x, 1.3x] of the reference price; for
\* a reference id that does not exist it fails with NotFound (404) and returns
\* no listings.
C24_SimilarOnlyWithinFilter ==
    (res # <<>> /\ res[1].handler = "getSimilarProperties"
                /\ "propertyId" \in DOMAIN res[1]) =>
        LET ref == res[1].propertyId
        IN  /\ ref \in DOMAIN props =>
                  /\ res[1].status = 200
                  /\ \A i \in 1..Len(res[1].properties) :
                        LET d == props[res[1].properties[i]]
                        IN  /\ res[1].properties[i] # ref
                            /\ d.isActive /\ d.status = "active"
                            /\ d.type = props[ref].type
                            /\ d.city = props[ref].city
                            /\ 10 * d.price >= 7 * props[ref].price
                            /\ 10 * d.price <= 13 * props[ref].price
            /\ ref \notin DOMAIN props =>
                  /\ res[1].status = 404
                  /\ "properties" \notin DOMAIN res[1]

\* the lookup for l1 (priced 10) returns l3, priced on the 0.7 boundary, and
\* leaves out l2, an active flat of the same city priced above 1.3 times
C24_Witness ==
    /\ res # <<>> /\ res[1].handler = "getSimilarProperties" /\ res[1].status = 200
    /\ res[1].propertyId = "l1"
    /\ res[1].properties = <<"l3">>
    /\ props["l3"].price = 7
    /\ props["l2"].isActive /\ props["l2"].status = "active"
    /\ props["l2"].type = "flat" /\ props["l2"].city = Goa
    /\ props["l2"].price = 14

\* the similarity score of listing l against the reference: +10 for the same
\* type, +5 for the same city, +5 for a price within 10% of the reference's
SimilarityScore(store, l, ref) ==
    (IF store[l].type = store[ref].type THEN 10 ELSE 0)
  + (IF store[l].city = store[ref].city THEN 5 ELSE 0)
  + (IF 10 * store[l].price >= 9 * store[ref].price
        /\ 10 * store[l].price <= 11 * store[ref].price THEN 5 ELSE 0)

\* listing a ranks strictly above listing b for the reference
MoreSimilar(store, a, b, ref) ==
    \/ SimilarityScore(store, a, ref) > SimilarityScore(store, b, ref)
    \/ /\ SimilarityScore(store, a, ref) = SimilarityScore(store, b, ref)
       /\ store[a].viewCount > store[b].viewCount

\* C25: the listings the similar-listings lookup returns are ordered by
\* similarity score descending, ties broken by view count descending, and
\* truncation to the limit keeps the highest-ranked listings.
C25_SimilarRankedByScore ==
    (res # <<>> /\ res[1].handler = "getSimilarProperties" /\ res[1].status = 200) =>
        LET ref == res[1].propertyId
            r == res[1].properties
            listed == {r[i] : i \in 1..Len(r)}
        IN  /\ \A i, j \in 1..Len(r) : i < j => ~MoreSimilar(props, r[j], r[i], ref)
            /\ \A l \in Similar(props, ref) \ listed :
                  \A i \in 1..Len(r) : ~MoreSimilar(props, l, r[i], ref)

\* C26: in every reachable state every stored event has viewDuration >= 0 and
\* scrollDepth within 0..100, whatever duration and scroll depth a client
\* passes to endViewSession: an out-of-range value is not stored.
C26_StoredDurationAndScrollInRange ==
    \A i \in 1..Len(views) :
        /\ views[i].viewDuration >= 0
        /\ views[i].scrollDepth \in 0..100

\* ---- concurrency and failure claims of the view recorder
\* the stored events of listing l under session s in the 24 hours up to now
SessionEvents(l, s) ==
    {i \in 1..Len(views) : /\ views[i].property = l
                           /\ views[i].sessionId = s
                           /\ views[i].viewedAt >= now - OneDay}

\* C27: when two recordView calls for the same listing and session run
\* concurrently, at most one of the two events is classified unique, so a
\* listing's uniqueViews grows by at most 1 per session within 24 hours.
C27_OneUniquePerSessionAndDay ==
    \A l \in Listings :
        /\ \A s \in Sessions :
              Cardinality({i \in SessionEvents(l, s) : views[i].isUnique}) <= 1
        /\ props[l].uniqueViews
              <= Cardinality({s \in Sessions : SessionEvents(l, s) # {}})

\* the stored events of listing l
StoredViews(l) == {i \in 1..Len(views) : views[i].property = l}

\* C28: after any sequence of recordView calls in which any store call may
\* fail, and with no recordView in flight, each listing's viewCount is the
\* number of events stored for it and its uniqueViews the number of those
\* stored unique.  (The increments of listing fetches are counted apart.)
C28_CountersMatchStoredEvents ==
    (\A p \in Procs : calls[p].pc = "idle") =>
        \A l \in Listings :
            /\ props[l].viewCount = Cardinality(StoredViews(l)) + fetched[l]
            /\ props[l].uniqueViews =
                  Cardinality({i \in StoredViews(l) : views[i].isUnique})

\* C29: in every reachable state, under any interleaving of recordView calls
\* and listing fetches that increment the view counter, every listing has
\* uniqueViews <= viewCount.
C29_UniqueViewsAtMostViewCount ==
    \A l \in Listings : props[l].uniqueViews <= props[l].viewCount

\* two unique views of a listing have been counted, so that its counters are
\* equal, while the increment of a fetch of the listing is pending
C29_Witness ==
    \E l \in Listings :
        /\ props[l].uniqueViews = 2
        /\ props[l].viewCount = 2
        /\ fetching = l

\* ---- price band claim
\* C30: the five price bands partition the active listings: the band counts of
\* getPriceRangeCategories sum to the number of active listings, every active
\* listing being counted in exactly one band, and that band is the bucket
\* priceRangeStatsPipeline assigns its price to.
C30_BandsPartitionActiveListings ==
    (res # <<>> /\ res[1].handler = "getPriceRangeCategories" /\ res[1].status = 200) =>
        LET c == res[1].categories
            ActiveListings == {l \in DOMAIN props :
                                  props[l].isActive /\ props[l].status = "active"}
        IN  /\ c[1].count + c[2].count + c[3].count + c[4].count + c[5].count
                  = Cardinality(ActiveListings)
            /\ \A k \in 1..Len(c) :
                  c[k].count = Cardinality({l \in ActiveListings :
                                   BucketOf(props[l].price) = k})

====
